---- MODULE Spec2Model ----
(***************************************************************************)
(* CoffeeOrderBuilder / CoffeeOrder of src/main.py as a state machine.     *)
(*                                                                         *)
(* One builder object is modelled.  Every public method is a pure operator *)
(* from (builder, argument) to an outcome: the builder afterwards, the     *)
(* message of the ValueError raised ("" when the call returned) and the    *)
(* value returned.  One action per method applies the operator and keeps   *)
(* the builder as it was before the call, the call and its outcome.        *)
(*                                                                         *)
(* Prices are Python floats in the source.  Here they are exact decimals   *)
(* counted in tenths of a rouble (ICED_PRICE 0.2 is 2, SIZE_MULTIPLIERS    *)
(* are in tenths too), so binary rounding of floats is not modelled.       *)
(* Line 71 of the source is indented with a tab; it is read as the guard   *)
(* of set_base, as its place and the lines after it show.                  *)
(***************************************************************************)
EXTENDS Integers, Sequences, FiniteSets, TLC

VARIABLES builder, pre, last, result

vars == <<builder, pre, last, result>>

----------------------------------------------------------------------------
(* Bounds of the model *)

\* number of syrup names callers use under Spec (all tables, few syrups)
NumSyrupNames == 2
\* number of syrup names callers use under SpecCap (few options, many syrups)
NumSyrupNamesCap == 5
\* how far outside 0..MAX_SUGAR the sugar arguments go
SugarSlack == 1

----------------------------------------------------------------------------
(* Class constants *)

\* tenths per unit: 1.0 is Tenth, 0.2 is 2
Tenth == 10

None == "<None>"

BASE_PRICES ==
    [espresso |-> 200 * Tenth, americano |-> 250 * Tenth,
     latte |-> 300 * Tenth, cappuccino |-> 320 * Tenth]

SIZE_MULTIPLIERS == [small |-> 10, medium |-> 12, large |-> 14]

MILK_PRICES ==
    [none |-> 0, whole |-> 30 * Tenth, skim |-> 30 * Tenth,
     oat |-> 60 * Tenth, soy |-> 50 * Tenth]

SYRUP_PRICE == 40 * Tenth
ICED_PRICE == 2
MAX_SUGAR == 5
MAX_SYRUPS == 4

VALID_BASES == {"espresso", "americano", "latte", "cappuccino"}
VALID_SIZES == {"small", "medium", "large"}
VALID_MILKS == {"none", "whole", "skim", "oat", "soy"}

----------------------------------------------------------------------------
(* Helpers for Python values *)

Range(s) == {s[i] : i \in DOMAIN s}

\* "sep".join(parts)
RECURSIVE Join(_, _)
Join(parts, sep) ==
    IF parts = <<>> THEN ""
    ELSE IF Len(parts) = 1 THEN parts[1]
    ELSE parts[1] \o sep \o Join(Tail(parts), sep)

\* outcome of a call that raised ValueError(msg): nothing was assigned
Raise(self, msg) == [self |-> self, err |-> msg, ret |-> "<raised>"]

\* outcome of a call that ran to `return self`
ReturnSelf(self) == [self |-> self, err |-> "", ret |-> "<self>"]

----------------------------------------------------------------------------
(* CoffeeOrderBuilder *)

\* clear_extras that forgets the syrups
clear_extras_KeepsSyrups(self) ==
    ReturnSelf([self EXCEPT !.milk = "none", !.sugar = 0, !.iced = FALSE])

clear_extras(self) ==
    ReturnSelf([self EXCEPT !.milk = "none", !.syrups = <<>>,
                            !.sugar = 0, !.iced = FALSE])

\* __init__: clear_extras(), then base and size are None
NewBuilder ==
    LET blank == [base |-> None, size |-> None, milk |-> None,
                  syrups |-> <<>>, sugar |-> 0, iced |-> FALSE]
    IN  [clear_extras(blank).self EXCEPT !.base = None, !.size = None]

\* the messages of set_base, set_size and set_milk end with the allowed set,
\* whose printed order Python leaves open; they are kept up to the value
set_base(self, base) ==
    IF base \notin VALID_BASES
    THEN Raise(self, "Invalid base: " \o base)
    ELSE ReturnSelf([self EXCEPT !.base = base])

set_size(self, size) ==
    IF size \notin VALID_SIZES
    THEN Raise(self, "invalid size: " \o size)
    ELSE ReturnSelf([self EXCEPT !.size = size])

set_milk(self, milk) ==
    IF milk \notin VALID_MILKS
    THEN Raise(self, "invalid milk type: " \o milk)
    ELSE ReturnSelf([self EXCEPT !.milk = milk])

\* add_syrup whose capacity test is > instead of >=
add_syrup_OffByOne(self, name) ==
    IF Len(self.syrups) > MAX_SYRUPS
    THEN Raise(self, "cannot add more than " \o ToString(MAX_SYRUPS) \o " syrups")
    ELSE IF name \notin Range(self.syrups)
    THEN ReturnSelf([self EXCEPT !.syrups = Append(self.syrups, name)])
    ELSE ReturnSelf(self)

\* add_syrup without the test for a name already present
add_syrup_NoDedupe(self, name) ==
    IF Len(self.syrups) >= MAX_SYRUPS
    THEN Raise(self, "cannot add more than " \o ToString(MAX_SYRUPS) \o " syrups")
    ELSE ReturnSelf([self EXCEPT !.syrups = Append(self.syrups, name)])

add_syrup(self, name) ==
    IF Len(self.syrups) >= MAX_SYRUPS
    THEN Raise(self, "cannot add more than " \o ToString(MAX_SYRUPS) \o " syrups")
    ELSE IF name \notin Range(self.syrups)
    THEN ReturnSelf([self EXCEPT !.syrups = Append(self.syrups, name)])
    ELSE ReturnSelf(self)

\* set_sugar that assigns before it validates
set_sugar_AssignFirst(self, teaspoons) ==
    LET assigned == [self EXCEPT !.sugar = teaspoons]
    IN  IF ~(0 <= teaspoons /\ teaspoons <= MAX_SUGAR)
        THEN Raise(assigned, "sugar quantity must be between 0 and " \o ToString(MAX_SUGAR))
        ELSE ReturnSelf(assigned)

set_sugar(self, teaspoons) ==
    IF ~(0 <= teaspoons /\ teaspoons <= MAX_SUGAR)
    THEN Raise(self, "sugar quantity must be between 0 and " \o ToString(MAX_SUGAR))
    ELSE ReturnSelf([self EXCEPT !.sugar = teaspoons])

set_iced(self, iced) ==
    ReturnSelf([self EXCEPT !.iced = iced])

\* _calculate_price with the milk surcharge inside the size multiplication
_calculate_price_MilkScaled(self) ==
    LET base_price == BASE_PRICES[self.base]
        size_multiplier == SIZE_MULTIPLIERS[self.size]
        p0 == ((base_price + MILK_PRICES[self.milk]) * size_multiplier) \div Tenth
        p2 == p0 + Len(self.syrups) * SYRUP_PRICE
    IN  IF self.iced THEN p2 + ICED_PRICE ELSE p2

\* called by build() only after base and size were found set
_calculate_price(self) ==
    LET base_price == BASE_PRICES[self.base]
        size_multiplier == SIZE_MULTIPLIERS[self.size]
        p0 == (base_price * size_multiplier) \div Tenth
        p1 == p0 + MILK_PRICES[self.milk]
        p2 == p1 + Len(self.syrups) * SYRUP_PRICE
    IN  IF self.iced THEN p2 + ICED_PRICE ELSE p2

\* _build_description with the sugar part before the iced part
_build_description_SugarFirst(self) ==
    IF self.base = None \/ self.size = None THEN ""
    ELSE
      LET parts0 == << self.size \o " " \o self.base >>
          parts1 == IF self.milk # "none"
                    THEN Append(parts0, "with " \o self.milk \o " milk")
                    ELSE parts0
          parts2 == IF self.syrups # <<>>
                    THEN Append(parts1, "+" \o Join(self.syrups, "+"))
                    ELSE parts1
          parts3 == IF self.sugar > 0
                    THEN Append(parts2, ToString(self.sugar) \o " tsp sugar")
                    ELSE parts2
          parts4 == IF self.iced THEN Append(parts3, "(iced)") ELSE parts3
      IN  Join(parts4, " ")

_build_description(self) ==
    IF self.base = None \/ self.size = None THEN ""
    ELSE
      LET parts0 == << self.size \o " " \o self.base >>
          parts1 == IF self.milk # "none"
                    THEN Append(parts0, "with " \o self.milk \o " milk")
                    ELSE parts0
          parts2 == IF self.syrups # <<>>
                    THEN Append(parts1, "+" \o Join(self.syrups, "+"))
                    ELSE parts1
          parts3 == IF self.iced THEN Append(parts2, "(iced)") ELSE parts2
          parts4 == IF self.sugar > 0
                    THEN Append(parts3, ToString(self.sugar) \o " tsp sugar")
                    ELSE parts3
      IN  Join(parts4, " ")

\* the Order build() makes of a builder whose base and size are set
OrderOf(self) ==
    [base |-> self.base, size |-> self.size, milk |-> self.milk,
     syrups |-> self.syrups, sugar |-> self.sugar, iced |-> self.iced,
     price |-> _calculate_price(self),
     description |-> _build_description(self)]

\* build that tests size before base
build_SizeFirst(self) ==
    IF self.size = None THEN Raise(self, "size is required")
    ELSE IF self.base = None THEN Raise(self, "base is required")
    ELSE [self |-> self, err |-> "", ret |-> OrderOf(self)]

\* build that resets the extras once the Order is made
build_ThenClear(self) ==
    IF self.base = None THEN Raise(self, "base is required")
    ELSE IF self.size = None THEN Raise(self, "size is required")
    ELSE [self |-> clear_extras(self).self, err |-> "", ret |-> OrderOf(self)]

build(self) ==
    IF self.base = None THEN Raise(self, "base is required")
    ELSE IF self.size = None THEN Raise(self, "size is required")
    ELSE IF Len(self.syrups) > MAX_SYRUPS
    THEN Raise(self, "cannot have more than " \o ToString(MAX_SYRUPS) \o " syrups")
    ELSE IF ~(0 <= self.sugar /\ self.sugar <= MAX_SUGAR)
    THEN Raise(self, "sugar quantity must be between 0 and " \o ToString(MAX_SUGAR))
    ELSE [self |-> self, err |-> "", ret |-> OrderOf(self)]

\* CoffeeOrder.__str__; f"{price:.2f}" of a price in tenths is its units, a
\* point, its tenths digit and a 0; the currency marker is written "rub."
OrderStr(order) ==
    IF order.description # "" THEN order.description
    ELSE "Coffee order: " \o ToString(order.price \div Tenth) \o "."
         \o ToString(order.price % Tenth) \o "0" \o " rub."

----------------------------------------------------------------------------
(* Arguments the callers pass *)

\* the names of the tests: vanilla, caramel, ..., then syrup4, syrup5, ...
SyrupName(i) ==
    IF i < 4 THEN <<"vanilla", "caramel", "hazelnut", "chocolate">>[i + 1]
    ELSE "syrup" \o ToString(i)

SyrupNames(n) == {SyrupName(i) : i \in 0..(n - 1)}

BaseArgs == VALID_BASES \cup {"mocha", "small"}
SizeArgs == VALID_SIZES \cup {"huge", "latte"}
MilkArgs == VALID_MILKS \cup {"almond"}
SugarArgs == (0 - SugarSlack)..(MAX_SUGAR + SugarSlack)

BaseArgsCap == {"latte", "mocha"}
SizeArgsCap == {"medium", "huge"}
MilkArgsCap == {"oat", "almond"}
SugarArgsCap == {0 - SugarSlack, 2, MAX_SUGAR + SugarSlack}

----------------------------------------------------------------------------
(* The state machine: one call of a public method per step *)

Call(op, arg, r) ==
    /\ builder' = r.self
    /\ pre' = builder
    /\ last' = [op |-> op, arg |-> arg, err |-> r.err]
    /\ result' = r.ret

Init ==
    /\ builder = NewBuilder
    /\ pre = NewBuilder
    /\ last = [op |-> "__init__", arg |-> "", err |-> ""]
    /\ result = "<self>"

SetBase(args) == \E base \in args : Call("set_base", base, set_base(builder, base))
SetSize(args) == \E size \in args : Call("set_size", size, set_size(builder, size))
SetMilk(args) == \E milk \in args : Call("set_milk", milk, set_milk(builder, milk))
AddSyrup(args) == \E name \in args : Call("add_syrup", name, add_syrup(builder, name))
SetSugar(args) == \E n \in args : Call("set_sugar", n, set_sugar(builder, n))
SetIced == \E iced \in BOOLEAN : Call("set_iced", iced, set_iced(builder, iced))
ClearExtras == Call("clear_extras", "", clear_extras(builder))
Build == Call("build", "", build(builder))

\* every option of the tables, few syrup names
Next ==
    \/ SetBase(BaseArgs)
    \/ SetSize(SizeArgs)
    \/ SetMilk(MilkArgs)
    \/ AddSyrup(SyrupNames(NumSyrupNames))
    \/ SetSugar(SugarArgs)
    \/ SetIced
    \/ ClearExtras
    \/ Build

Spec == Init /\ [][Next]_vars

\* few options, enough syrup names to go past MAX_SYRUPS
NextCap ==
    \/ SetBase(BaseArgsCap)
    \/ SetSize(SizeArgsCap)
    \/ SetMilk(MilkArgsCap)
    \/ AddSyrup(SyrupNames(NumSyrupNamesCap))
    \/ SetSugar(SugarArgsCap)
    \/ SetIced
    \/ ClearExtras
    \/ Build

SpecCap == Init /\ [][NextCap]_vars

----------------------------------------------------------------------------
(* Properties *)

Built == last.op = "build" /\ last.err = ""

CapacityMsg == "cannot add more than 4 syrups"

\* C1: the price of every Order returned by build() is
\* BASE_PRICES[base] * SIZE_MULTIPLIERS[size] + MILK_PRICES[milk]
\* + 40.0 * (number of syrups) + (0.2 if iced); sugar is no part of it and
\* the iced surcharge is not multiplied by the size.  The scenario of the
\* tests (large cappuccino, oat, two syrups, iced) costs 588.2.
C1_PriceFormula ==
    Built =>
      /\ result.price * Tenth
           = BASE_PRICES[result.base] * SIZE_MULTIPLIERS[result.size]
             + Tenth * ( MILK_PRICES[result.milk]
                         + 400 * Len(result.syrups)
                         + (IF result.iced THEN 2 ELSE 0) )
      /\ result.price = build([pre EXCEPT !.sugar = 0]).ret.price
      /\ ( /\ result.base = "cappuccino" /\ result.size = "large"
           /\ result.milk = "oat" /\ Len(result.syrups) = 2 /\ result.iced )
         => result.price = 5882

C1_Witness ==
    /\ Built
    /\ result.size = "large" /\ result.milk = "oat" /\ result.iced
    /\ result.sugar > 0 /\ Len(result.syrups) = 2

C3_DuplicateIsNoOp ==
    /\ ( last.op = "add_syrup" /\ last.arg \in Range(pre.syrups) )
       => /\ last.err = ""
          /\ result = "<self>"
          /\ builder.syrups = pre.syrups
    /\ ( last.op = "add_syrup" /\ last.err # "" )
       => /\ Len(pre.syrups) = MAX_SYRUPS
          /\ last.arg \notin Range(pre.syrups)

\* C4: with base and size set, the first five add_syrup calls with distinct
\* names all return without raising (the builder then holds five syrups),
\* and it is the build() after them that raises "cannot have more than 4
\* syrups".
C4_FiveAddsThenBuildFails ==
    /\ ( /\ last.op = "add_syrup"
         /\ pre.base # None /\ pre.size # None
         /\ Len(pre.syrups) < 5
         /\ last.arg \notin Range(pre.syrups) )
       => /\ last.err = ""
          /\ builder.syrups = Append(pre.syrups, last.arg)
    /\ ( last.op = "build" /\ Len(pre.syrups) = 5 )
       => last.err = "cannot have more than 4 syrups"

C6_ClearExtras ==
    last.op = "clear_extras" =>
      /\ last.err = ""
      /\ builder.milk = "none" /\ builder.syrups = <<>>
      /\ builder.sugar = 0 /\ builder.iced = FALSE
      /\ builder.base = pre.base /\ builder.size = pre.size
      /\ (builder.base # None /\ builder.size # None) =>
           LET r == build(builder)
           IN  /\ r.err = ""
               /\ r.ret.base = pre.base /\ r.ret.size = pre.size
               /\ r.ret.milk = "none" /\ r.ret.syrups = <<>>
               /\ r.ret.sugar = 0 /\ r.ret.iced = FALSE
               /\ r.ret.price * Tenth
                    = BASE_PRICES[pre.base] * SIZE_MULTIPLIERS[pre.size]

C6_Witness ==
    /\ last.op = "clear_extras"
    /\ pre.base # None /\ pre.size # None
    /\ pre.milk # "none" /\ pre.syrups # <<>> /\ pre.sugar > 0 /\ pre.iced

\* C7: build() changes no builder field, whether it returns or raises; a
\* second build() right after a successful one returns an Order with the
\* same fields, extras included.
C7_BuildKeepsBuilder ==
    last.op = "build" =>
      /\ builder = pre
      /\ last.err = "" =>
           LET again == build(builder)
           IN  again.err = "" /\ again.ret = result /\ again.self = pre

C7_Witness ==
    /\ Built
    /\ pre.milk # "none" /\ pre.syrups # <<>> /\ pre.sugar > 0 /\ pre.iced

\* C8: set_base, set_size and set_milk with a value outside the allowed set,
\* and set_sugar(n) with n < 0 or n > 5, raise and change no builder field;
\* set_sugar(n) with 0 <= n <= 5 returns and changes sugar to n and nothing
\* else.
C8_FailedSetterKeepsState ==
    /\ (last.op = "set_base" /\ last.arg \notin VALID_BASES)
         => last.err # "" /\ builder = pre
    /\ (last.op = "set_size" /\ last.arg \notin VALID_SIZES)
         => last.err # "" /\ builder = pre
    /\ (last.op = "set_milk" /\ last.arg \notin VALID_MILKS)
         => last.err # "" /\ builder = pre
    /\ last.op = "set_sugar" =>
         IF last.arg < 0 \/ last.arg > 5
         THEN /\ last.err = "sugar quantity must be between 0 and 5"
              /\ builder = pre
         ELSE /\ last.err = ""
              /\ builder = [pre EXCEPT !.sugar = last.arg]

C8_Witness ==
    /\ last.op = "set_sugar"
    /\ last.arg > 5
    /\ last.err # ""
    /\ pre.sugar = 3 /\ pre.base # None /\ pre.syrups # <<>>

\* "+a+b+c": every syrup preceded by "+", in the order of the sequence
RECURSIVE C9_Plus(_)
C9_Plus(syrups) ==
    IF syrups = <<>> THEN "" ELSE "+" \o Head(syrups) \o C9_Plus(Tail(syrups))

C9_Expected(o) ==
    o.size \o " " \o o.base
    \o (IF o.milk = "none" THEN "" ELSE " with " \o o.milk \o " milk")
    \o (IF Len(o.syrups) = 0 THEN "" ELSE " " \o C9_Plus(o.syrups))
    \o (IF o.iced THEN " (iced)" ELSE "")
    \o (IF o.sugar > 0 THEN " " \o ToString(o.sugar) \o " tsp sugar" ELSE "")

\* C9: the description of every Order returned by build() is, joined by
\* single spaces and in this order: "{size} {base}"; "with {milk} milk" iff
\* milk is not none; "+" and the syrups joined by "+" iff there are syrups;
\* "(iced)" iff iced; "{sugar} tsp sugar" iff sugar > 0.  It is never empty,
\* so str(order) is the description and not the price fallback.
C9_Description ==
    Built =>
      /\ result.description = C9_Expected(result)
      /\ result.description # ""
      /\ OrderStr(result) = result.description
      /\ ( /\ result.base = "cappuccino" /\ result.size = "large"
           /\ result.milk = "oat" /\ result.syrups = <<"vanilla", "caramel">>
           /\ result.sugar = 2 /\ result.iced )
         => result.description
              = "large cappuccino with oat milk +vanilla+caramel (iced) 2 tsp sugar"

C9_Witness ==
    /\ Built
    /\ result.base = "cappuccino" /\ result.size = "large"
    /\ result.milk = "oat" /\ result.syrups = <<"vanilla", "caramel">>
    /\ result.sugar = 2 /\ result.iced

IsPrefix(s, t) == Len(s) <= Len(t) /\ SubSeq(t, 1, Len(s)) = s

====
